---- MODULE Spec2Model ----
(***************************************************************************)
(* Model of project.py, a menu-driven personal finance ledger over one     *)
(* SQLite file (users, transactions, budgets) with a file-copy backup.     *)
(*                                                                         *)
(* Typed input lines that the code converts (strip, lower, float, int,     *)
(* strftime) are sequences of one-character strings, so the conversions    *)
(* are computed character by character.  Usernames and passwords are only  *)
(* ever compared for equality and are plain strings.                       *)
(***************************************************************************)
EXTENDS Integers, Sequences, FiniteSets

VARIABLES
    pc,      \* "main": the loop of main(); "user": the loop of user_menu(); "done": process ended
    user,    \* the username argument of user_menu (None outside it)
    db,      \* the contents of the file DB_PATH
    backup,  \* the contents of the file BACKUP_FILE, or NoFile
    last     \* the operation just performed: its typed input, its outcome, what it printed/returned

vars == <<pc, user, db, backup, last>>

-----------------------------------------------------------------------------
(* Bounds and input sets *)

\* the largest AUTOINCREMENT id of transactions handed out in the model
MaxId == 2
\* the largest AUTOINCREMENT id of budgets handed out in the model
MaxBudgetId == 1

None == "<None>"
NULL == "<NULL>"
\* a file is the one-element sequence of its contents; no file is the empty one
NoFile == <<>>
File(content) == <<content>>
Content(f) == f[1]

Usernames == {"a", "b"}
\* with the empty username, which login returns as a false value
AccountUsernames == {"", "a", "b"}
Passwords == {"p", "q"}

INCOME == <<"i","n","c","o","m","e">>
EXPENSE == <<"e","x","p","e","n","s","e">>

TypeInputs ==
    { <<" ","I","n","c","o","m","e">>, EXPENSE, <<"g","i","f","t">> }
AmountInputs == { <<"5">>, <<"x">>, <<"n","a","n">> }
CategoryInputs == { <<" ","R","e","n","t">>, <<"R","e","n","t">> }
DateInputs ==
    { <<"2","0","2","5","-","0","4","-","0","5">>,
      <<"2","0","2","5","-","0","4","-","3","2">> }
MonthInputs == { <<"4">>, <<"5">>, <<"x">> }
YearInputs == { <<"2","0","2","5">>, <<"x">> }
\* values CURRENT_TIMESTAMP can take
Timestamps == { "2025-06-01 10:00:00" }

\* narrower sets of typed lines, for the specifications that widen something else
NarrowPasswords == { "p" }
NarrowTypeInputs == { EXPENSE }
NarrowAmountInputs == { <<"5">> }
NarrowMonthInputs == { <<"4">> }
NarrowYearInputs == { <<"2","0","2","5">> }
NarrowDateInputs == { <<"2","0","2","5","-","0","4","-","0","5">> }
StorageBudgetMonths == { 4 }

\* rows a budget insert through the storage layer can carry
BudgetCategories == { <<"R","e","n","t">> }
BudgetAmounts == { 9 }
BudgetMonths == { 4, 5 }
BudgetYears == { 2025 }

-----------------------------------------------------------------------------
(* Text conversions *)

Digits == <<"0","1","2","3","4","5","6","7","8","9">>
UpperCase == <<"A","B","C","D","E","F","G","H","I","J","K","L","M",
               "N","O","P","Q","R","S","T","U","V","W","X","Y","Z">>
LowerCase == <<"a","b","c","d","e","f","g","h","i","j","k","l","m",
               "n","o","p","q","r","s","t","u","v","w","x","y","z">>

IsSpace(c) == c = " "
IsDigit(c) == \E i \in 1..10 : Digits[i] = c
DigitVal(c) == (CHOOSE i \in 1..10 : Digits[i] = c) - 1

\* str.lower(), one character
LowerChar(c) ==
    IF \E i \in 1..26 : UpperCase[i] = c
    THEN LowerCase[CHOOSE i \in 1..26 : UpperCase[i] = c]
    ELSE c

\* str.lower()
Lower(s) == [i \in 1..Len(s) |-> LowerChar(s[i])]

RECURSIVE LStrip(_)
LStrip(s) == IF s # <<>> /\ IsSpace(Head(s)) THEN LStrip(Tail(s)) ELSE s

RECURSIVE RStrip(_)
RStrip(s) ==
    IF s # <<>> /\ IsSpace(s[Len(s)]) THEN RStrip(SubSeq(s, 1, Len(s) - 1)) ELSE s

\* str.strip()
Strip(s) == RStrip(LStrip(s))

AllDigits(s) == s # <<>> /\ \A i \in 1..Len(s) : IsDigit(s[i])

RECURSIVE DigitsVal(_)
DigitsVal(s) ==
    IF s = <<>> THEN 0 ELSE 10 * DigitsVal(SubSeq(s, 1, Len(s) - 1)) + DigitVal(s[Len(s)])

\* a signed decimal integer literal, after surrounding whitespace is dropped
Unsigned(s) == IF s # <<>> /\ Head(s) \in {"+", "-"} THEN Tail(s) ELSE s
IsIntLiteral(s) == AllDigits(Unsigned(Strip(s)))
IntLiteralVal(s) ==
    LET t == Strip(s)
    IN  IF Head(t) = "-" THEN 0 - DigitsVal(Unsigned(t)) ELSE DigitsVal(Unsigned(t))

\* int(input(...)): the value, or ValueError
ParseInt(s) ==
    IF IsIntLiteral(s) THEN [ok |-> TRUE, nan |-> FALSE, val |-> IntLiteralVal(s)]
    ELSE [ok |-> FALSE, nan |-> FALSE, val |-> 0]

\* float(input(...)): the value, NaN, or ValueError.  Modelled for whole-number
\* literals and "nan"; the input sets hold no fractions or exponents.
ParseFloat(s) ==
    IF IsIntLiteral(s) THEN [ok |-> TRUE, nan |-> FALSE, val |-> IntLiteralVal(s)]
    ELSE IF Lower(Unsigned(Strip(s))) = <<"n","a","n">>
         THEN [ok |-> TRUE, nan |-> TRUE, val |-> 0]
         ELSE [ok |-> FALSE, nan |-> FALSE, val |-> 0]

\* str(n)
RECURSIVE StrNat(_)
StrNat(n) == IF n < 10 THEN <<Digits[n + 1]>> ELSE StrNat(n \div 10) \o <<Digits[(n % 10) + 1]>>
Str(n) == IF n < 0 THEN <<"-">> \o StrNat(0 - n) ELSE StrNat(n)

\* f"{n:02d}"
Format02d(n) == IF n >= 0 /\ n < 10 THEN <<"0">> \o Str(n) ELSE Str(n)

\* SQLite's reading of a date text of the form YYYY-MM-DD: month 01..12 and
\* day 01..31 are required, whatever the month; anything else is no date.
IsSqlDate(d) ==
    /\ Len(d) = 10
    /\ d[5] = "-" /\ d[8] = "-"
    /\ AllDigits(SubSeq(d, 1, 4)) /\ AllDigits(SubSeq(d, 6, 7)) /\ AllDigits(SubSeq(d, 9, 10))
    /\ DigitsVal(SubSeq(d, 6, 7)) \in 1..12
    /\ DigitsVal(SubSeq(d, 9, 10)) \in 1..31

\* strftime('%m', date) and strftime('%Y', date) of a date text SQLite can read
\* (of any other text they are NULL, which equals nothing in a WHERE clause)
strftime_m(d) == SubSeq(d, 6, 7)
strftime_Y(d) == SubSeq(d, 1, 4)

-----------------------------------------------------------------------------
(* The database file: schema and constraints of create_tables *)

EmptyDb ==
    [users |-> {}, transactions |-> <<>>, budgets |-> <<>>, seq |-> 0, bseq |-> 0]

UsernamesOf(d) == {r.username : r \in d.users}

\* users.username TEXT PRIMARY KEY
PrimaryKeyOk(d, u) == u \notin UsernamesOf(d)

\* the transactions table without its CHECK constraint
CheckTypeAbsent(t) == TRUE

\* type TEXT CHECK(type IN ('income', 'expense')) NOT NULL
CheckType(t) == t \in {INCOME, EXPENSE}

\* amount REAL NOT NULL: the sqlite3 module binds a float NaN as NULL
AmountNotNull(a) == ~a.nan

\* PRAGMA foreign_keys = ON; FOREIGN KEY (username) REFERENCES users(username)
ForeignKeyOk(d, u) == u \in UsernamesOf(d)

\* a foreign key without ON DELETE CASCADE and without enforcement
CascadeOff(rows, u) == rows

\* ON DELETE CASCADE: the rows of a table that a deleted user leaves behind
Cascade(rows, u) == SelectSeq(rows, LAMBDA r : r.username # u)

\* INSERT INTO users (username, password) VALUES (?, ?)
InsertUser(d, u, p) ==
    [d EXCEPT !.users = @ \cup {[username |-> u, password |-> p]}]

\* INSERT INTO transactions (username, type, amount, category, date) VALUES (...):
\* id from AUTOINCREMENT, created_at from DEFAULT CURRENT_TIMESTAMP
InsertTransaction(d, u, t, amt, c, dt, now) ==
    [d EXCEPT !.transactions =
                  Append(@, [id |-> d.seq + 1, username |-> u, type |-> t, amount |-> amt,
                             category |-> c, date |-> dt, created_at |-> now]),
              !.seq = @ + 1]

\* an INSERT INTO budgets through the storage layer
InsertBudgetRow(d, u, c, amt, m, y) ==
    [d EXCEPT !.budgets =
                  Append(@, [id |-> d.bseq + 1, username |-> u, category |-> c,
                             amount |-> amt, month |-> m, year |-> y]),
              !.bseq = @ + 1]

\* DELETE FROM users WHERE username = ?, with the cascades of the schema
DeleteUserRow(d, u) ==
    [d EXCEPT !.users = {r \in @ : r.username # u},
              !.transactions = Cascade(@, u),
              !.budgets = Cascade(@, u)]

-----------------------------------------------------------------------------
(* Queries *)

\* a register that does not look the username up
UsernameExistsNever(d, u) == FALSE

\* SELECT * FROM users WHERE username = ?   (register)
UsernameExists(d, u) == \E r \in d.users : r.username = u

\* a login whose query leaves the password out
AuthenticateUsernameOnly(d, u, p) ==
    IF \E r \in d.users : r.username = u THEN u ELSE None

\* SELECT * FROM users WHERE username=? AND password=?; login returns the
\* username when a row is fetched and None otherwise
Authenticate(d, u, p) ==
    IF \E r \in d.users : r.username = u /\ r.password = p THEN u ELSE None

\* a main() that enters user_menu whatever login returned
TruthyAlways(x) == TRUE

\* Python truth value of what login returned (if user:)
Truthy(x) == x # None /\ x # ""

\* a listing whose query has no WHERE clause
ListRowsEveryUser(d, u) ==
    [i \in 1..Len(d.transactions) |->
        [amount |-> d.transactions[i].amount, type |-> d.transactions[i].type,
         category |-> d.transactions[i].category, date |-> d.transactions[i].date,
         created_at |-> d.transactions[i].created_at]]

\* SELECT amount, type, category, date, created_at FROM transactions WHERE username=?
ListRows(d, u) ==
    LET mine == SelectSeq(d.transactions, LAMBDA r : r.username = u)
    IN  [i \in 1..Len(mine) |->
            [amount |-> mine[i].amount, type |-> mine[i].type, category |-> mine[i].category,
             date |-> mine[i].date, created_at |-> mine[i].created_at]]

\* WHERE username=? AND strftime('%m', date)=? AND strftime('%Y', date)=?
ReportWhere(r, u, mm, yyyy) ==
    /\ r.username = u
    /\ IsSqlDate(r.date)
    /\ strftime_m(r.date) = mm
    /\ strftime_Y(r.date) = yyyy

RECURSIVE SumAmounts(_)
SumAmounts(rows) == IF rows = <<>> THEN 0 ELSE Head(rows).amount + SumAmounts(Tail(rows))

\* SELECT category, type, SUM(amount) ... GROUP BY category, type: one row per group
ReportGroups(d, u, mm, yyyy) ==
    LET sel == SelectSeq(d.transactions, LAMBDA r : ReportWhere(r, u, mm, yyyy))
        keys == {<<sel[i].category, sel[i].type>> : i \in 1..Len(sel)}
    IN  {[category |-> k[1], type |-> k[2],
          amt |-> SumAmounts(SelectSeq(sel, LAMBDA r : r.category = k[1] /\ r.type = k[2]))]
         : k \in keys}

\* the orders in which fetchall() can return the rows of a query without ORDER BY
FetchOrders(S) ==
    {f \in [1..Cardinality(S) -> S] : \A i, j \in 1..Cardinality(S) : f[i] = f[j] => i = j}

\* SELECT category, amount FROM budgets WHERE username=? AND month=? AND year=?
BudgetRows(d, u, month, year) ==
    SelectSeq(d.budgets, LAMBDA b : b.username = u /\ b.month = month /\ b.year = year)

\* budgets.get(category, '-') over {row[0]: row[1] for row in fetchall()}: a later
\* row of the same category replaces an earlier one
BudgetGet(rows, c) ==
    LET hits == SelectSeq(rows, LAMBDA b : b.category = c)
    IN  IF hits = <<>> THEN [none |-> "-"] ELSE [amt |-> hits[Len(hits)].amount]

\* the loop over data: the two report tables and the three totals
RECURSIVE ReportLoop(_, _, _)
ReportLoop(data, budgets, acc) ==
    IF data = <<>> THEN acc
    ELSE LET g == Head(data)
             budget_amt == BudgetGet(budgets, g.category)
         IN  IF g.type = INCOME
             THEN ReportLoop(Tail(data), budgets,
                      [acc EXCEPT !.total_income = @ + g.amt,
                                  !.income_report =
                                      Append(@, [category |-> g.category, amt |-> g.amt])])
             ELSE ReportLoop(Tail(data), budgets,
                      [acc EXCEPT !.total_expense = @ + g.amt,
                                  !.expense_report =
                                      Append(@, [category |-> g.category, amt |-> g.amt,
                                                 budget |-> budget_amt])])

\* what generate_monthly_report prints for the grouped rows in the order fetched
Report(d, u, month, year, data) ==
    LET r == ReportLoop(data, BudgetRows(d, u, month, year),
                 [income_report |-> <<>>, expense_report |-> <<>>,
                  total_income |-> 0, total_expense |-> 0])
    IN  [income_report |-> r.income_report, expense_report |-> r.expense_report,
         total_income |-> r.total_income, total_expense |-> r.total_expense,
         savings |-> r.total_income - r.total_expense]

-----------------------------------------------------------------------------
(* The session shell *)

Init ==
    /\ pc = "main"
    /\ user = None
    /\ db = EmptyDb             \* main() has run create_tables() on a new file
    /\ backup = NoFile
    /\ last = [op |-> "start", in |-> <<>>, res |-> "ok", out |-> None]

\* an exception leaves every frame; the guard around main() prints it and the
\* process ends
Raise(op, in, exc) ==
    /\ pc' = "done"
    /\ user' = None
    /\ last' = [op |-> op, in |-> in, res |-> exc, out |-> None]
    /\ UNCHANGED <<db, backup>>

\* main, choice '1'
register(u, p) ==
    /\ pc = "main"
    /\ IF UsernameExists(db, u)
       THEN /\ last' = [op |-> "register", in |-> <<u, p>>, res |-> "duplicate", out |-> None]
            /\ UNCHANGED <<pc, user, db, backup>>
       ELSE IF PrimaryKeyOk(db, u)
            THEN /\ db' = InsertUser(db, u, p)
                 /\ last' = [op |-> "register", in |-> <<u, p>>, res |-> "ok", out |-> None]
                 /\ UNCHANGED <<pc, user, backup>>
            ELSE Raise("register", <<u, p>>, "IntegrityError")

\* main, choice '2': login(), and user_menu(user) when it returned a true value
login(u, p) ==
    /\ pc = "main"
    /\ LET r == Authenticate(db, u, p)
       IN  /\ last' = [op |-> "login", in |-> <<u, p>>,
                       res |-> IF r # None THEN "ok" ELSE "failed", out |-> r]
           /\ IF Truthy(r)
              THEN pc' = "user" /\ user' = r
              ELSE UNCHANGED <<pc, user>>
    /\ UNCHANGED <<db, backup>>

\* a backup that does not replace a backup file already there
backup_database_keeps_old ==
    /\ pc = "main"
    /\ backup' = IF backup = NoFile THEN File(db) ELSE backup
    /\ last' = [op |-> "backup", in |-> <<>>, res |-> "ok", out |-> None]
    /\ UNCHANGED <<pc, user, db>>

\* main, choice '3'
backup_database ==
    /\ pc = "main"
    /\ backup' = File(db)
    /\ last' = [op |-> "backup", in |-> <<>>, res |-> "ok", out |-> None]
    /\ UNCHANGED <<pc, user, db>>

\* main, choice '4'
restore_database ==
    /\ pc = "main"
    /\ IF backup # NoFile
       THEN /\ db' = Content(backup)
            /\ last' = [op |-> "restore", in |-> <<>>, res |-> "ok", out |-> None]
       ELSE /\ db' = db
            /\ last' = [op |-> "restore", in |-> <<>>, res |-> "no_backup", out |-> None]
    /\ UNCHANGED <<pc, user, backup>>

\* main, choice '5'
main_exit ==
    /\ pc = "main"
    /\ pc' = "done"
    /\ last' = [op |-> "exit", in |-> <<>>, res |-> "ok", out |-> None]
    /\ UNCHANGED <<user, db, backup>>

\* main, any other choice
main_invalid_choice ==
    /\ pc = "main"
    /\ last' = [op |-> "invalid_choice", in |-> <<>>, res |-> "ok", out |-> None]
    /\ UNCHANGED <<pc, user, db, backup>>

\* user_menu, choice '1'
add_transaction(ti, ai, ci, di, now) ==
    /\ pc = "user"
    /\ db.seq < MaxId
    /\ LET type_ == Lower(Strip(ti))
           amount == ParseFloat(ai)
           category == Strip(ci)
       IN  IF ~amount.ok
           THEN Raise("add_transaction", <<ti, ai>>, "ValueError")
           ELSE IF CheckType(type_) /\ AmountNotNull(amount) /\ ForeignKeyOk(db, user)
                THEN /\ db' = InsertTransaction(db, user, type_, amount.val, category, di, now)
                     /\ last' = [op |-> "add_transaction", in |-> <<ti, ai, ci, di>>,
                                 res |-> "ok", out |-> None]
                     /\ UNCHANGED <<pc, user, backup>>
                ELSE Raise("add_transaction", <<ti, ai, ci, di>>, "IntegrityError")

\* user_menu, choice '2'
list_transactions ==
    /\ pc = "user"
    /\ last' = [op |-> "list_transactions", in |-> <<>>, res |-> "ok",
                out |-> ListRows(db, user)]
    /\ UNCHANGED <<pc, user, db, backup>>

\* user_menu, choice '3'
generate_monthly_report(mi, yi) ==
    /\ pc = "user"
    /\ LET month == ParseInt(mi)
           year == ParseInt(yi)
       IN  IF ~month.ok
           THEN Raise("generate_monthly_report", <<mi>>, "ValueError")
           ELSE IF ~year.ok
                THEN Raise("generate_monthly_report", <<mi, yi>>, "ValueError")
                ELSE /\ \E data \in FetchOrders(ReportGroups(db, user, Format02d(month.val),
                                                             Str(year.val))) :
                            last' = [op |-> "generate_monthly_report", in |-> <<mi, yi>>,
                                     res |-> "ok",
                                     out |-> Report(db, user, month.val, year.val, data)]
                     /\ UNCHANGED <<pc, user, db, backup>>

\* user_menu, choice '4'
logout ==
    /\ pc = "user"
    /\ pc' = "main"
    /\ user' = None
    /\ last' = [op |-> "logout", in |-> <<>>, res |-> "ok", out |-> None]
    /\ UNCHANGED <<db, backup>>

\* user_menu, any other choice
user_menu_invalid_choice ==
    /\ pc = "user"
    /\ last' = [op |-> "invalid_choice", in |-> <<>>, res |-> "ok", out |-> None]
    /\ UNCHANGED <<pc, user, db, backup>>

\* the loop of main() over the typed usernames U and passwords P
main(U, P) ==
    \/ \E u \in U, p \in P : register(u, p)
    \/ \E u \in U, p \in P : login(u, p)
    \/ backup_database
    \/ restore_database
    \/ main_exit
    \/ main_invalid_choice

\* the loop of user_menu() over the typed lines T (type), A (amount), C (category),
\* D (date), M (month) and Y (year)
user_menu(T, A, C, D, M, Y) ==
    \/ \E ti \in T, ai \in A, ci \in C, di \in D, now \in Timestamps :
          add_transaction(ti, ai, ci, di, now)
    \/ list_transactions
    \/ \E mi \in M, yi \in Y : generate_monthly_report(mi, yi)
    \/ logout
    \/ user_menu_invalid_choice

\* the shell with every typed transaction and report line, over one password
Next ==
    \/ main(Usernames, NarrowPasswords)
    \/ user_menu(TypeInputs, AmountInputs, CategoryInputs, DateInputs, MonthInputs, YearInputs)

Spec == Init /\ [][Next]_vars

\* the shell with every username and password, over one typed transaction line
NextAccount ==
    \/ main(AccountUsernames, Passwords)
    \/ user_menu(NarrowTypeInputs, NarrowAmountInputs, CategoryInputs, NarrowDateInputs,
                 NarrowMonthInputs, NarrowYearInputs)

SpecAccount == Init /\ [][NextAccount]_vars

-----------------------------------------------------------------------------
(* Writes made through the storage layer and not by the shell: the schema     *)
(* holds a budgets table and deletes of users cascade, but no menu entry      *)
(* writes a budget or deletes a user.                                         *)

insert_budget(u, c, amt, m, y) ==
    /\ pc # "done"
    /\ db.bseq < MaxBudgetId
    /\ IF ForeignKeyOk(db, u)
       THEN /\ db' = InsertBudgetRow(db, u, c, amt, m, y)
            /\ last' = [op |-> "insert_budget", in |-> <<u, c, amt, m, y>>,
                        res |-> "ok", out |-> None]
       ELSE /\ db' = db
            /\ last' = [op |-> "insert_budget", in |-> <<u, c, amt, m, y>>,
                        res |-> "IntegrityError", out |-> None]
    /\ UNCHANGED <<pc, user, backup>>

delete_user(u) ==
    /\ pc # "done"
    /\ UsernameExists(db, u)
    /\ db' = DeleteUserRow(db, u)
    /\ last' = [op |-> "delete_user", in |-> <<u>>, res |-> "ok", out |-> None]
    /\ UNCHANGED <<pc, user, backup>>

\* the storage-layer writes, with budgets of the months BM
storage(BM) ==
    \/ \E u \in Usernames, c \in BudgetCategories, amt \in BudgetAmounts,
          m \in BM, y \in BudgetYears : insert_budget(u, c, amt, m, y)
    \/ \E u \in Usernames : delete_user(u)

\* the shell over one password and one typed transaction, with the storage-layer
\* writes beside it
NextStorage ==
    \/ main(Usernames, NarrowPasswords)
    \/ user_menu(NarrowTypeInputs, NarrowAmountInputs, CategoryInputs, NarrowDateInputs,
                 NarrowMonthInputs, NarrowYearInputs)
    \/ storage(StorageBudgetMonths)

SpecStorage == Init /\ [][NextStorage]_vars

\* the same with every date and two budget months, for the report's budget column
NextBudget ==
    \/ main(Usernames, NarrowPasswords)
    \/ user_menu(NarrowTypeInputs, NarrowAmountInputs, CategoryInputs, DateInputs,
                 NarrowMonthInputs, NarrowYearInputs)
    \/ storage(BudgetMonths)

SpecBudget == Init /\ [][NextBudget]_vars

-----------------------------------------------------------------------------
(* Account service *)

RowsOf(d, u) == {r \in d.users : r.username = u}

\* C1: a register of a username not in the users table inserts it, and a login
\* with the same username and password on the resulting table returns that
\* username; a register of a username already in the table is refused as a
\* duplicate and leaves the table as it was, one row for the username with the
\* password it was first registered with.
C1_RegisterOnceThenLogin ==
    [][last'.op = "register" =>
          LET u == last'.in[1]
              p == last'.in[2]
          IN  IF u \in UsernamesOf(db)
              THEN /\ last'.res = "duplicate"
                   /\ db' = db
                   /\ pc' = "main"
                   /\ Cardinality(RowsOf(db', u)) = 1
              ELSE /\ last'.res = "ok"
                   /\ db'.users = db.users \cup {[username |-> u, password |-> p]}
                   /\ Cardinality(RowsOf(db', u)) = 1
                   /\ Authenticate(db', u, p) = u]_vars

\* a register of a registered username with another password has just been refused
C1_Witness ==
    /\ last.op = "register"
    /\ last.res = "duplicate"
    /\ \E r \in db.users : r.username = last.in[1] /\ r.password # last.in[2]

\* C2: login returns the username only when the users table holds a row with that
\* username and that password; with a registered username and another password
\* it returns None, the shell stays in the top-level menu with no session user,
\* and neither the database nor the backup changes.
C2_LoginNeedsBothFields ==
    [][last'.op = "login" =>
          LET u == last'.in[1]
              p == last'.in[2]
          IN  /\ last'.out = u =>
                    [username |-> u, password |-> p] \in db.users
              /\ last'.out \in {u, None}
              /\ (u \in UsernamesOf(db) /\ [username |-> u, password |-> p] \notin db.users) =>
                    /\ last'.out = None
                    /\ last'.res = "failed"
                    /\ pc' = "main"
                    /\ user' = None
                    /\ db' = db
                    /\ backup' = backup]_vars

\* a login with a registered username and a wrong password has just failed
C2_Witness ==
    /\ last.op = "login"
    /\ last.res = "failed"
    /\ last.in[1] \in UsernamesOf(db)
    /\ pc = "main"

-----------------------------------------------------------------------------
(* Backup and restore *)

\* C7: a backup stores the database as it is, replacing any earlier backup; no
\* other operation changes the backup; a restore with a backup present makes the
\* live database equal to the backup, whatever was written since.
C7_RestoreYieldsLastBackup ==
    [][/\ last'.op = "backup" => (backup' = File(db) /\ db' = db)
       /\ last'.op # "backup" => backup' = backup
       /\ (last'.op = "restore" /\ backup # NoFile) =>
             (db' = Content(backup) /\ last'.res = "ok")
       /\ (last'.op = "restore" /\ backup = NoFile) =>
             (db' = db /\ last'.res = "no_backup")]_vars

\* a restore has just brought back a backup that holds users and transactions
C7_Witness ==
    /\ last.op = "restore"
    /\ last.res = "ok"
    /\ db = Content(backup)
    /\ db.users # {}
    /\ db.transactions # <<>>

-----------------------------------------------------------------------------
(* Session shell *)

HandledErrors == {"duplicate", "failed", "no_backup", "ValueError"}

\* C8: after a duplicate registration, a failed login, a malformed amount, month
\* or year, or a restore without a backup, the shell is still in one of its
\* menus; the process has ended only when exit was chosen in the top-level menu
\* (or a constraint of the schema failed, which is none of the handled classes).
C8_HandledErrorsKeepShellRunning ==
    /\ last.res \in HandledErrors => pc \in {"main", "user"}
    /\ pc = "done" => (last.op = "exit" \/ last.res = "IntegrityError")

\* C10: add, list, report and logout run only in the user menu; register, login,
\* backup, restore and exit only in the top-level menu; the user menu is entered
\* only by a successful login and left for the top-level menu only by logout;
\* in the user menu the session username is a row of the users table; a row the
\* shell inserts carries the session username.
C10_SessionInvariant ==
    [][/\ last'.op \in {"add_transaction", "list_transactions",
                        "generate_monthly_report", "logout"} => pc = "user"
       /\ last'.op \in {"register", "login", "backup", "restore", "exit"} => pc = "main"
       /\ (pc = "main" /\ pc' = "user") => (last'.op = "login" /\ last'.res = "ok")
       /\ (pc = "user" /\ pc' = "main") => last'.op = "logout"
       /\ pc' = "user" => user' \in UsernamesOf(db')
       /\ (pc = "user" /\ pc' = "user") => user' = user
       /\ (last'.op = "add_transaction" /\ last'.res = "ok") =>
             /\ Len(db'.transactions) = Len(db.transactions) + 1
             /\ db'.transactions[Len(db'.transactions)].username = user
             /\ user \in UsernamesOf(db')]_vars

\* the logged-in user has just added a transaction
C10_Witness ==
    /\ pc = "user"
    /\ last.op = "add_transaction"
    /\ last.res = "ok"
    /\ db.transactions[Len(db.transactions)].username = user

-----------------------------------------------------------------------------
(* Ledger service *)

LastRow(rows) == rows[Len(rows)]

\* C3 as stated: a successful add appends to the adding user's listing exactly one
\* row whose kind, category and date are the typed lines and whose amount is the
\* number typed, with created_at set, and changes no other user's listing; an
\* operation other than an add or a restore changes no listing.
C3_AddListedAsTyped ==
    [][/\ (last'.op = "add_transaction" /\ last'.res = "ok") =>
             /\ user \in UsernamesOf(db)
             /\ \A U \in Usernames \ {user} : ListRows(db', U) = ListRows(db, U)
             /\ Len(ListRows(db', user)) = Len(ListRows(db, user)) + 1
             /\ SubSeq(ListRows(db', user), 1, Len(ListRows(db, user))) = ListRows(db, user)
             /\ LET new == LastRow(ListRows(db', user))
                IN  /\ new.amount = ParseFloat(last'.in[2]).val
                    /\ new.type = last'.in[1]
                    /\ new.category = last'.in[3]
                    /\ new.date = last'.in[4]
                    /\ new.created_at # NULL
       /\ ~(last'.op = "add_transaction" /\ last'.res = "ok") /\ last'.op # "restore" =>
             \A U \in Usernames : ListRows(db', U) = ListRows(db, U)]_vars

\* C3 amended: the same, with the kind stored trimmed and in lower case and the
\* category stored trimmed.
C3_AddListedNormalised ==
    [][/\ (last'.op = "add_transaction" /\ last'.res = "ok") =>
             /\ user \in UsernamesOf(db)
             /\ \A U \in Usernames \ {user} : ListRows(db', U) = ListRows(db, U)
             /\ Len(ListRows(db', user)) = Len(ListRows(db, user)) + 1
             /\ SubSeq(ListRows(db', user), 1, Len(ListRows(db, user))) = ListRows(db, user)
             /\ LET new == LastRow(ListRows(db', user))
                IN  /\ new.amount = ParseFloat(last'.in[2]).val
                    /\ new.type = Lower(Strip(last'.in[1]))
                    /\ new.category = Strip(last'.in[3])
                    /\ new.date = last'.in[4]
                    /\ new.created_at # NULL
       /\ ~(last'.op = "add_transaction" /\ last'.res = "ok") /\ last'.op # "restore" =>
             \A U \in Usernames : ListRows(db', U) = ListRows(db, U)]_vars

\* a user has just added a transaction typed with surrounding blanks while
\* another user holds a transaction too
C3_Witness ==
    /\ last.op = "add_transaction"
    /\ last.res = "ok"
    /\ Strip(last.in[3]) # last.in[3]
    /\ LastRow(ListRows(db, user)).category = Strip(last.in[3])
    /\ \E U \in Usernames \ {user} : ListRows(db, U) # <<>>

KindsOk(d) == \A i \in 1..Len(d.transactions) : d.transactions[i].type \in {INCOME, EXPENSE}

\* C4: every transaction row of the database and of the backup has type
\* 'income' or 'expense'; an add whose type line, trimmed and lower-cased, is one
\* of the two and whose amount line is a number stores that lower-case type; an
\* add with any other type line, or with an amount line that is no number,
\* leaves the transactions table as it was.
C4_OnlyIncomeOrExpense ==
    /\ KindsOk(db)
    /\ [][/\ KindsOk(db')
          /\ backup' # NoFile => KindsOk(Content(backup'))
          /\ last'.op = "add_transaction" =>
                LET type_ == Lower(Strip(last'.in[1]))
                    amount == ParseFloat(last'.in[2])
                IN  /\ (type_ \in {INCOME, EXPENSE} /\ amount.ok /\ ~amount.nan) =>
                          /\ last'.res = "ok"
                          /\ Len(db'.transactions) = Len(db.transactions) + 1
                          /\ LastRow(db'.transactions).type = type_
                    /\ (type_ \notin {INCOME, EXPENSE} \/ ~amount.ok \/ amount.nan) =>
                          /\ last'.res # "ok"
                          /\ db'.transactions = db.transactions]_vars

\* an add with a type that is neither literal has just been refused, after an add
\* typed with a capital letter was stored in lower case
C4_Witness ==
    /\ last.op = "add_transaction"
    /\ last.res = "IntegrityError"
    /\ Lower(Strip(last.in[1])) \notin {INCOME, EXPENSE}
    /\ \E i \in 1..Len(db.transactions) : db.transactions[i].type = INCOME

\* the month and year a date text of the form YYYY-MM-DD names, whatever its day
IsYmdText(d) ==
    /\ Len(d) = 10
    /\ d[5] = "-" /\ d[8] = "-"
    /\ AllDigits(SubSeq(d, 1, 4)) /\ AllDigits(SubSeq(d, 6, 7)) /\ AllDigits(SubSeq(d, 9, 10))
DateInPeriod(d, month, year) ==
    IsYmdText(d) /\ DigitsVal(SubSeq(d, 6, 7)) = month /\ DigitsVal(SubSeq(d, 1, 4)) = year

\* the transactions of user u and kind k dated in the month and year
PeriodRows(d, u, k, month, year) ==
    SelectSeq(d.transactions,
              LAMBDA r : r.username = u /\ r.type = k /\ DateInPeriod(r.date, month, year))

\* C6: a report for month m and year y gives as total income the sum of the
\* session user's income transactions dated in m/y on any day, as total expense
\* the sum of the user's expense transactions dated in m/y, and as savings their
\* difference; with no such transaction all three are 0 and both tables empty.
C6_TotalsOverPeriod ==
    (last.op = "generate_monthly_report" /\ last.res = "ok") =>
        LET month == ParseInt(last.in[1]).val
            year == ParseInt(last.in[2]).val
            inc == PeriodRows(db, user, INCOME, month, year)
            exp == PeriodRows(db, user, EXPENSE, month, year)
        IN  /\ last.out.total_income = SumAmounts(inc)
            /\ last.out.total_expense = SumAmounts(exp)
            /\ last.out.savings = last.out.total_income - last.out.total_expense
            /\ (inc = <<>> /\ exp = <<>>) =>
                  /\ last.out.income_report = <<>>
                  /\ last.out.expense_report = <<>>
                  /\ last.out.total_income = 0
                  /\ last.out.total_expense = 0
                  /\ last.out.savings = 0


OncePerCategory(rows) == \A i, j \in 1..Len(rows) : rows[i].category = rows[j].category => i = j

\* C9: in a report for month m and year y each category is in at most one row of
\* the income table and at most one row of the expense table, with the sum of
\* the session user's transactions of that category and kind dated in m/y; an
\* expense row carries the amount of a budget stored for that user, category,
\* month and year when there is one and the placeholder otherwise; an income row
\* carries no budget.
C9_RowsPerCategoryWithBudget ==
    (last.op = "generate_monthly_report" /\ last.res = "ok") =>
        LET month == ParseInt(last.in[1]).val
            year == ParseInt(last.in[2]).val
            inc == last.out.income_report
            exp == last.out.expense_report
            sum(k, c) == SumAmounts(SelectSeq(PeriodRows(db, user, k, month, year),
                                              LAMBDA r : r.category = c))
            stored(c) == {db.budgets[i].amount : i \in
                             {j \in 1..Len(db.budgets) :
                                 /\ db.budgets[j].username = user
                                 /\ db.budgets[j].category = c
                                 /\ db.budgets[j].month = month
                                 /\ db.budgets[j].year = year}}
        IN  /\ OncePerCategory(inc)
            /\ OncePerCategory(exp)
            /\ \A i \in 1..Len(inc) :
                  /\ inc[i].amt = sum(INCOME, inc[i].category)
                  /\ DOMAIN inc[i] = {"category", "amt"}
            /\ \A i \in 1..Len(exp) :
                  /\ exp[i].amt = sum(EXPENSE, exp[i].category)
                  /\ IF stored(exp[i].category) = {}
                     THEN exp[i].budget = [none |-> "-"]
                     ELSE \E a \in stored(exp[i].category) : exp[i].budget = [amt |-> a]

-----------------------------------------------------------------------------
(* Referential integrity *)

References(d) ==
    /\ \A i \in 1..Len(d.transactions) : d.transactions[i].username \in UsernamesOf(d)
    /\ \A i \in 1..Len(d.budgets) : d.budgets[i].username \in UsernamesOf(d)

====
